---------------------------- MODULE Spec2Model ----------------------------
(***************************************************************************)
(* A model of PECS.hpp: the sparse-set component pool (SparseSet<T>) and   *)
(* the entity registry (ECSInstance) that owns one pool per component type *)
(* and recycles entity IDs through a free list.                            *)
(*                                                                         *)
(* PECS_ASSERT is the default assert of a build with assertions enabled:   *)
(* a failed assertion aborts the process, which the model records in       *)
(* `aborted`; nothing runs after it.                                       *)
(*                                                                         *)
(* Indices are those of the C++ code (0-based); m_DenseSet is a TLA+       *)
(* sequence, so the entry at C++ index i is m_DenseSet[i + 1].             *)
(***************************************************************************)
EXTENDS Integers, Sequences, FiniteSets

\* ----------------------------------------------------------------- bounds
\* The capacity the registry is constructed with (ECSInstance(MaxEntities)).
m_MaxEntities == 3
\* The number of calls a run of Spec makes on the registry.
MaxCalls == 4
\* SpecLifecycle does not call DeleteEntity while the free list holds this
\* many IDs.
MaxFree == 3
\* SpecPool does not call AddComponent on a pool whose dense sequence holds
\* this many entries.
MaxDense == 4

\* Component types the caller instantiates the templates with, and the
\* values a component of each type is constructed from.
Types == {"A", "B"}
Values(t) == IF t = "A" THEN {"x", "y"} ELSE {"x"}

EntityIDs == 0 .. (m_MaxEntities - 1)

VARIABLES
    m_NextEntity,      \* ECSInstance::m_NextEntity
    m_FreeEntities,    \* ECSInstance::m_FreeEntities, back of the vector last
    m_ComponentPools,  \* ECSInstance::m_ComponentPools: type -> SparseSet
    aborted,           \* a PECS_ASSERT has failed
    last,              \* the latest call: its name, arguments and result
    live,              \* history: IDs CreateEntity returned, not deleted since
    disciplined,       \* history: no DeleteEntity or AddComponent so far was
                       \*          called on an entity that was not live
    deleted,           \* history: the IDs passed to DeleteEntity and not yet
                       \*          reused, in the order of the calls
    everDeleted,       \* history: the IDs DeleteEntity was ever called on
    attached,          \* history: attached[t][e] is the value the first
                       \*          AddComponent<t>(e, ..) since e last lost its
                       \*          t was called with, NoValue when there is none
    calls,             \* history: the number of calls made so far
    touched,           \* history: the component types whose pool the latest
                       \*          call created or changed
    removedFrom,       \* history: the component types whose pool has had an
                       \*          entry removed
    inserted           \* history: inserted[t] is the entities in the order of
                       \*          their first AddComponent<t> call, as long as
                       \*          t is not in removedFrom

vars == <<m_NextEntity, m_FreeEntities, m_ComponentPools, aborted, last,
          live, disciplined, deleted, everDeleted, attached, calls, touched,
          removedFrom, inserted>>

\* The registry's own fields.
registry == <<m_NextEntity, m_FreeEntities, m_ComponentPools>>

\* -------------------------------------------------------------- SparseSet
\* The value of sparse[e] that Has reads as "absent".
Sentinel == m_MaxEntities - 1

\* SparseSet(MaxEntities): sparse resized to MaxEntities copies of
\* MaxEntities - 1, dense empty.
SparseSet ==
    [m_SparseSet |-> [e \in EntityIDs |-> m_MaxEntities - 1],
     m_DenseSet  |-> << >>]

Has(set, entity) == set.m_SparseSet[entity] # m_MaxEntities - 1

\* Get, past its assertions: the data of the entry sparse[entity] indexes.
Get(set, entity) == set.m_DenseSet[set.m_SparseSet[entity] + 1].data

\* Mutant of Add: the entry is pushed without looking at Has.
AddUnchecked(set, entity, v) ==
    [m_DenseSet  |-> Append(set.m_DenseSet, [entity |-> entity, data |-> v]),
     m_SparseSet |-> [set.m_SparseSet EXCEPT ![entity] = Len(set.m_DenseSet)]]

Add(set, entity, v) ==
    IF Has(set, entity)
    THEN set
    ELSE [m_DenseSet  |-> Append(set.m_DenseSet, [entity |-> entity, data |-> v]),
          m_SparseSet |-> [set.m_SparseSet EXCEPT ![entity] = Len(set.m_DenseSet)]]

\* Mutant of Remove: the last entry is popped without having been moved
\* into the slot of `entity`.
RemoveMoveLeftOut(set, entity) ==
    IF ~Has(set, entity)
    THEN set
    ELSE [m_DenseSet  |-> SubSeq(set.m_DenseSet, 1, Len(set.m_DenseSet) - 1),
          m_SparseSet |-> [set.m_SparseSet EXCEPT ![entity] = m_MaxEntities - 1]]

\* Mutant of Remove: sparse[entity] is not set back to the absent marker.
RemoveSparseKept(set, entity) ==
    IF ~Has(set, entity)
    THEN set
    ELSE LET index     == set.m_SparseSet[entity]
             lastIdx   == Len(set.m_DenseSet) - 1
             lastEntry == set.m_DenseSet[lastIdx + 1]
             moved     == [set.m_DenseSet EXCEPT ![index + 1] = lastEntry]
             sparse1   == [set.m_SparseSet EXCEPT ![lastEntry.entity] = index]
         IN  [m_DenseSet  |-> SubSeq(moved, 1, Len(moved) - 1),
              m_SparseSet |-> sparse1]

Remove(set, entity) ==
    IF ~Has(set, entity)
    THEN set
    ELSE LET index     == set.m_SparseSet[entity]
             lastIdx   == Len(set.m_DenseSet) - 1
             lastEntry == set.m_DenseSet[lastIdx + 1]
             moved     == [set.m_DenseSet EXCEPT ![index + 1] = lastEntry]
             sparse1   == [set.m_SparseSet EXCEPT ![lastEntry.entity] = index]
         IN  [m_DenseSet  |-> SubSeq(moved, 1, Len(moved) - 1),
              m_SparseSet |-> [sparse1 EXCEPT ![entity] = m_MaxEntities - 1]]

\* Mutant of RemoveResult: Remove returns true on every path.
RemoveResultAlwaysTrue(set, entity) == TRUE

\* What Remove returns.
RemoveResult(set, entity) == Has(set, entity)

\* The entities begin()..end() traverses, and membership in that traversal.
DenseEntities(set) == {set.m_DenseSet[i].entity : i \in 1 .. Len(set.m_DenseSet)}
InDense(set, entity) == entity \in DenseEntities(set)

\* ------------------------------------------------------------ ECSInstance
\* TryGetPool<T>() != nullptr
TryGetPool(t) == t \in DOMAIN m_ComponentPools

\* The pool map after GetOrCreatePool<T>(): unchanged when T has a pool,
\* else with a fresh SparseSet for T.
GetOrCreatePool(t) ==
    IF t \in DOMAIN m_ComponentPools
    THEN m_ComponentPools
    ELSE [k \in DOMAIN m_ComponentPools \cup {t} |->
             IF k = t THEN SparseSet ELSE m_ComponentPools[k]]

\* Mutants of Back and PopBack: the front of the vector is read instead of
\* the back; pop_back() is left out; the front is popped instead of the back.
BackAsFront(free) == free[1]
PopBackLeftOut(free) == free
PopFront(free) == SubSeq(free, 2, Len(free))

\* m_FreeEntities.back() and the vector after pop_back().
Back(free) == free[Len(free)]
PopBack(free) == SubSeq(free, 1, Len(free) - 1)

\* Mutant of RemoveEntity: the loop over the pools is left out.
RemoveEntityLeftOut(pools, entity) == pools

\* DeleteEntity's loop: pool->RemoveEntity(entity) on every pool there is.
RemoveEntity(pools, entity) ==
    [t \in DOMAIN pools |-> Remove(pools[t], entity)]

\* The record of a call: its name, its arguments (NoType, NoEntity, NoValue
\* for those it does not take) and what it returned (NoValue for void; for
\* a call that ended in a failed assertion, NoEntity or NoValue).
NoType == "-"
NoEntity == "no entity"
NoValue == "no value"
Call(op, t, e, v, ret) == [op |-> op, t |-> t, e |-> e, v |-> v, ret |-> ret]

Init ==
    /\ m_NextEntity = 0
    /\ m_FreeEntities = << >>
    /\ m_ComponentPools = [t \in {} |-> SparseSet]
    /\ aborted = FALSE
    /\ last = Call("ECSInstance", NoType, NoEntity, NoValue, NoValue)
    /\ live = {}
    /\ disciplined = TRUE
    /\ deleted = << >>
    /\ everDeleted = {}
    /\ attached = [t \in Types |-> [e \in EntityIDs |-> NoValue]]
    /\ calls = 0
    /\ touched = {}
    /\ removedFrom = {}
    /\ inserted = [t \in Types |-> << >>]

CreateEntity ==
    /\ ~aborted
    /\ IF m_FreeEntities = << >>
       THEN IF m_NextEntity + 1 < m_MaxEntities
            THEN /\ m_NextEntity' = m_NextEntity + 1
                 /\ last' = Call("CreateEntity", NoType, NoEntity, NoValue, m_NextEntity)
                 /\ live' = live \cup {m_NextEntity}
                 /\ UNCHANGED <<m_FreeEntities, aborted, deleted>>
            ELSE /\ aborted' = TRUE
                 /\ last' = Call("CreateEntity", NoType, NoEntity, NoValue, NoEntity)
                 /\ UNCHANGED <<m_NextEntity, m_FreeEntities, live, deleted>>
       ELSE LET id == Back(m_FreeEntities)
            IN  /\ m_FreeEntities' = PopBack(m_FreeEntities)
                /\ last' = Call("CreateEntity", NoType, NoEntity, NoValue, id)
                /\ live' = live \cup {id}
                /\ deleted' = SubSeq(deleted, 1, Len(deleted) - 1)
                /\ UNCHANGED <<m_NextEntity, aborted>>
    /\ UNCHANGED <<m_ComponentPools, disciplined, everDeleted, attached>>

DeleteEntity(entity) ==
    /\ ~aborted
    /\ entity < m_MaxEntities
    /\ m_FreeEntities' = Append(m_FreeEntities, entity)
    /\ m_ComponentPools' = RemoveEntity(m_ComponentPools, entity)
    /\ last' = Call("DeleteEntity", NoType, entity, NoValue, NoValue)
    /\ live' = live \ {entity}
    /\ disciplined' = (disciplined /\ entity \in live)
    /\ deleted' = Append(deleted, entity)
    /\ everDeleted' = everDeleted \cup {entity}
    /\ attached' = [t \in Types |-> [attached[t] EXCEPT ![entity] = NoValue]]
    /\ UNCHANGED <<m_NextEntity, aborted>>

AddComponent(t, entity, v) ==
    /\ ~aborted
    /\ entity < m_MaxEntities
    /\ LET pools == GetOrCreatePool(t)
           set   == Add(pools[t], entity, v)
       IN  /\ m_ComponentPools' = [pools EXCEPT ![t] = set]
           /\ last' = Call("AddComponent", t, entity, v, Get(set, entity))
    /\ disciplined' = (disciplined /\ entity \in live)
    /\ attached' = IF attached[t][entity] = NoValue
                   THEN [attached EXCEPT ![t][entity] = v]
                   ELSE attached
    /\ UNCHANGED <<m_NextEntity, m_FreeEntities, aborted, live, deleted, everDeleted>>

GetComponent(t, entity) ==
    /\ ~aborted
    /\ entity < m_MaxEntities
    /\ IF TryGetPool(t) /\ Has(m_ComponentPools[t], entity)
       THEN /\ last' = Call("GetComponent", t, entity, NoValue,
                            Get(m_ComponentPools[t], entity))
            /\ UNCHANGED aborted
       ELSE /\ last' = Call("GetComponent", t, entity, NoValue, NoValue)
            /\ aborted' = TRUE
    /\ UNCHANGED <<registry, live, disciplined, deleted, everDeleted, attached>>

RemoveComponent(t, entity) ==
    /\ ~aborted
    /\ entity < m_MaxEntities
    /\ IF TryGetPool(t)
       THEN /\ m_ComponentPools' =
                   [m_ComponentPools EXCEPT ![t] = Remove(m_ComponentPools[t], entity)]
            /\ last' = Call("RemoveComponent", t, entity, NoValue,
                            RemoveResult(m_ComponentPools[t], entity))
       ELSE /\ last' = Call("RemoveComponent", t, entity, NoValue, FALSE)
            /\ UNCHANGED m_ComponentPools
    /\ attached' = [attached EXCEPT ![t][entity] = NoValue]
    /\ UNCHANGED <<m_NextEntity, m_FreeEntities, aborted, live, disciplined, deleted,
                   everDeleted>>

\* The value RemoveComponent<T>(entity) returns when the pools are `pools`.
RemoveComponentResult(pools, t, entity) ==
    IF t \in DOMAIN pools THEN RemoveResult(pools[t], entity) ELSE FALSE

\* The value HasComponent<T>(entity) returns when the pools are `pools`.
HasComponentResult(pools, t, entity) ==
    IF t \in DOMAIN pools THEN Has(pools[t], entity) ELSE FALSE

HasComponent(t, entity) ==
    /\ ~aborted
    /\ entity < m_MaxEntities
    /\ last' = Call("HasComponent", t, entity, NoValue,
                    HasComponentResult(m_ComponentPools, t, entity))
    /\ UNCHANGED <<registry, aborted, live, disciplined, deleted, everDeleted, attached>>

Iterate(t) ==
    /\ ~aborted
    /\ m_ComponentPools' = GetOrCreatePool(t)
    /\ last' = Call("Iterate", t, NoEntity, NoValue, NoValue)
    /\ UNCHANGED <<m_NextEntity, m_FreeEntities, aborted, live, disciplined,
                   deleted, everDeleted, attached>>

\* --------------------------------------------------------- specifications
\* One more call of a run of at most MaxCalls calls.
Tick ==
    /\ calls < MaxCalls
    /\ calls' = calls + 1

\* The record of the pools a call created or changed, of the pools it took
\* an entry out of, and of the first AddComponent on an entity.
Touch ==
    /\ touched' = {t \in DOMAIN m_ComponentPools' :
                      IF t \in DOMAIN m_ComponentPools
                      THEN m_ComponentPools'[t] # m_ComponentPools[t]
                      ELSE TRUE}
    /\ removedFrom' = removedFrom \cup
                      {t \in DOMAIN m_ComponentPools :
                          Len(m_ComponentPools'[t].m_DenseSet)
                             < Len(m_ComponentPools[t].m_DenseSet)}
    /\ inserted' = [t \in Types |->
                      IF t \in removedFrom'
                      THEN << >>
                      ELSE IF /\ last'.op = "AddComponent"
                              /\ last'.t = t
                              /\ \A i \in 1 .. Len(inserted[t]) : inserted[t][i] # last'.e
                           THEN Append(inserted[t], last'.e)
                           ELSE inserted[t]]

\* Any call on any ID below the capacity, live or not.
Next ==
    \/ Tick /\ CreateEntity /\ Touch
    \/ \E e \in EntityIDs : Tick /\ DeleteEntity(e) /\ Touch
    \/ \E t \in Types, e \in EntityIDs : \E v \in Values(t) : Tick /\ AddComponent(t, e, v) /\ Touch
    \/ \E t \in Types, e \in EntityIDs : Tick /\ GetComponent(t, e) /\ Touch
    \/ \E t \in Types, e \in EntityIDs : Tick /\ RemoveComponent(t, e) /\ Touch
    \/ \E t \in Types, e \in EntityIDs : Tick /\ HasComponent(t, e) /\ Touch
    \/ \E t \in Types : Tick /\ Iterate(t) /\ Touch

\* Every run of at most MaxCalls calls.
Spec == Init /\ [][Next]_vars

\* The entity lifecycle alone: CreateEntity and DeleteEntity on any ID below
\* the capacity, in runs of any length that keep the free list within
\* MaxFree.
NextLifecycle ==
    \/ CreateEntity /\ UNCHANGED calls /\ Touch
    \/ \E e \in EntityIDs :
           Len(m_FreeEntities) < MaxFree /\ DeleteEntity(e) /\ UNCHANGED calls /\ Touch

SpecLifecycle == Init /\ [][NextLifecycle]_vars

\* The value the caller gives entity e in the specifications that run to
\* any length: one of its own parity, so that an entry that took another
\* entity's data shows.
ValueOf(e) == IF e % 2 = 0 THEN "x" ELSE "y"

\* Disciplined use: DeleteEntity and AddComponent are only called on entities
\* that are live at the call. Runs are of any length and made of the calls
\* that change the registry.
NextDisciplined ==
    \/ CreateEntity /\ UNCHANGED calls /\ Touch
    \/ \E e \in live : DeleteEntity(e) /\ UNCHANGED calls /\ Touch
    \/ \E t \in Types, e \in live :
           AddComponent(t, e, ValueOf(e)) /\ UNCHANGED calls /\ Touch
    \/ \E t \in Types, e \in EntityIDs : RemoveComponent(t, e) /\ UNCHANGED calls /\ Touch
    \/ \E t \in Types : Iterate(t) /\ UNCHANGED calls /\ Touch

SpecDisciplined == Init /\ [][NextDisciplined]_vars

\* One pool in depth: AddComponent, RemoveComponent and DeleteEntity on any
\* ID below the capacity, for one component type, in runs of any length
\* that keep the dense sequence within MaxDense and call DeleteEntity at
\* most once.
PoolType == "A"
PoolRoom(t) ==
    IF TryGetPool(t) THEN Len(m_ComponentPools[t].m_DenseSet) < MaxDense ELSE TRUE

NextPool ==
    \/ \E e \in EntityIDs :
           PoolRoom(PoolType) /\ AddComponent(PoolType, e, ValueOf(e)) /\ UNCHANGED calls /\ Touch
    \/ \E e \in EntityIDs : RemoveComponent(PoolType, e) /\ UNCHANGED calls /\ Touch
    \/ \E e \in EntityIDs :
           m_FreeEntities = << >> /\ DeleteEntity(e) /\ UNCHANGED calls /\ Touch

SpecPool == Init /\ [][NextPool]_vars

\* ------------------------------------------------------------------ claims
\* A step that is a call of `op`, and one such call that returned (no
\* assertion failed in it). Every step of every specification is one call,
\* recorded in last'.
Called(op) == last'.op = op
Returned(op) == last'.op = op /\ ~aborted'

\* The data of the entries of `set` whose entity is `entity`.
DataOf(set, entity) ==
    {set.m_DenseSet[i].data :
        i \in {j \in 1 .. Len(set.m_DenseSet) : set.m_DenseSet[j].entity = entity}}

\* `entity` holds no component in any pool of `pools`: HasComponent is false
\* for every type and no dense sequence has an entry for it.
HoldsNothing(pools, entity) ==
    \A t \in DOMAIN pools :
        /\ ~HasComponentResult(pools, t, entity)
        /\ ~InDense(pools[t], entity)

\* C1 (as claimed): in every sequence of CreateEntity and DeleteEntity calls,
\* DeleteEntity on any ID below the capacity, CreateEntity never returns an
\* ID that is live at the call.
C1_NeverReturnsLive ==
    [][Returned("CreateEntity") => last'.ret \notin live]_vars

\* C1 (amended): as long as every DeleteEntity so far was called on an ID
\* that was live at the call, CreateEntity never returns an ID that is live.
C1_NeverReturnsLiveDisciplined ==
    [][(Returned("CreateEntity") /\ disciplined) => last'.ret \notin live]_vars

\* C1 witness: after disciplined deletions, CreateEntity has returned a
\* recycled ID (one DeleteEntity was called on) while another entity is live.
C1_Witness ==
    /\ disciplined
    /\ last.op = "CreateEntity" /\ ~aborted
    /\ last.ret \in everDeleted
    /\ live # {last.ret}

\* C2 (as claimed): right after DeleteEntity(e) has returned, in every pool
\* there is HasComponent<T>(e) is false and the dense sequence has no entry
\* whose entity is e.
C2_CascadeDelete ==
    last.op = "DeleteEntity" => HoldsNothing(m_ComponentPools, last.e)

\* C3 (as claimed): AddComponent<T>(e, v) on an entity that holds no T (none
\* attached by the calls so far, no entry in T's dense sequence) leaves
\* HasComponent<T>(e) true and GetComponent<T>(e) returning v without a
\* failed assertion.
C3_RoundTrip ==
    [][LET t == last'.t
           e == last'.e
       IN
         ( /\ Called("AddComponent")
           /\ attached[t][e] = NoValue
           /\ ~(TryGetPool(t) /\ InDense(m_ComponentPools[t], e)) )
         => /\ HasComponentResult(m_ComponentPools', t, e)
            /\ Get(m_ComponentPools'[t], e) = last'.v]_vars

\* C4 (as claimed): AddComponent<T>(e, a2) on an entity to which an earlier
\* AddComponent<T>(e, a1) attached a T, with no RemoveComponent<T>(e) and no
\* DeleteEntity(e) since, leaves T's pool as it was, and the value stored
\* for e is still a1.
C4_AddIdempotent ==
    [][LET t == last'.t
           e == last'.e
       IN
         ( /\ Called("AddComponent")
           /\ attached[t][e] # NoValue )
         => /\ m_ComponentPools'[t] = m_ComponentPools[t]
            /\ DataOf(m_ComponentPools'[t], e) = {attached[t][e]}
            /\ last'.ret = attached[t][e]]_vars

\* C5 (as claimed): Remove(e) on a pool whose dense sequence has an entry
\* for e returns true, shortens the dense sequence by exactly one, leaves no
\* entry for e, and leaves every other entity of the pool in it with the
\* data it had.
C5_RemovalCompaction ==
    [][LET t == last'.t
           e == last'.e
       IN
         ( /\ Called("RemoveComponent")
           /\ TryGetPool(t) /\ InDense(m_ComponentPools[t], e) )
         => /\ last'.ret = TRUE
            /\ Len(m_ComponentPools'[t].m_DenseSet)
                  = Len(m_ComponentPools[t].m_DenseSet) - 1
            /\ ~InDense(m_ComponentPools'[t], e)
            /\ \A f \in DenseEntities(m_ComponentPools[t]) \ {e} :
                  DataOf(m_ComponentPools'[t], f) = DataOf(m_ComponentPools[t], f)]_vars

\* C6 (as claimed): CreateEntity called while maxEntities entities are live
\* fails its assertion and returns no ID; and CreateEntity never returns an
\* ID outside [0, maxEntities).
C6_CapacityBoundary ==
    [][Called("CreateEntity") =>
         /\ Cardinality(live) = m_MaxEntities => aborted'
         /\ ~aborted' => last'.ret \in 0 .. (m_MaxEntities - 1)]_vars

\* C7 (as claimed): with the free list empty, CreateEntity fails only if
\* issuing nextEntity would take the high-water mark past maxEntities, and
\* otherwise returns nextEntity and increments it (so that a fresh registry
\* issues 0, 1, ..., maxEntities - 1).
C7_HighWaterAllocation ==
    [][(Called("CreateEntity") /\ m_FreeEntities = << >>) =>
         /\ aborted' => m_NextEntity + 1 > m_MaxEntities
         /\ ~aborted' => /\ last'.ret = m_NextEntity
                         /\ m_NextEntity' = m_NextEntity + 1]_vars

\* C8 (as claimed): in every sequence of calls on IDs below the capacity,
\* the ID CreateEntity returns holds no component in any pool, and
\* CreateEntity changes no pool.
C8_RecycledStartsEmpty ==
    [][Returned("CreateEntity") =>
         /\ HoldsNothing(m_ComponentPools', last'.ret)
         /\ m_ComponentPools' = m_ComponentPools]_vars

\* C8 (amended): as long as every DeleteEntity and AddComponent so far was
\* called on an entity that was live at the call, the ID CreateEntity
\* returns holds no component in any pool, and CreateEntity changes no pool.
C8_RecycledStartsEmptyDisciplined ==
    [][(Returned("CreateEntity") /\ disciplined) =>
         /\ HoldsNothing(m_ComponentPools', last'.ret)
         /\ m_ComponentPools' = m_ComponentPools]_vars

\* C8 witness: in disciplined use CreateEntity has returned a recycled ID
\* (one DeleteEntity was called on) while there is a pool, which in
\* disciplined use only AddComponent on a live entity or Iterate creates.
C8_Witness ==
    /\ disciplined
    /\ last.op = "CreateEntity" /\ ~aborted
    /\ last.ret \in everDeleted
    /\ DOMAIN m_ComponentPools # {}

\* The sequence `s` without its i-th element.
RemoveAt(s, i) == SubSeq(s, 1, i - 1) \o SubSeq(s, i + 1, Len(s))

\* C9: with the free list non-empty, CreateEntity returns the ID of the most
\* recent DeleteEntity call not yet reused, takes exactly that one entry
\* out of the free list, and leaves nextEntity as it was.
C9_LifoReuse ==
    [][(Called("CreateEntity") /\ m_FreeEntities # << >>) =>
         /\ ~aborted'
         /\ deleted # << >>
         /\ last'.ret = deleted[Len(deleted)]
         /\ \E i \in 1 .. Len(m_FreeEntities) :
               /\ m_FreeEntities[i] = last'.ret
               /\ m_FreeEntities' = RemoveAt(m_FreeEntities, i)
         /\ m_NextEntity' = m_NextEntity]_vars

\* C9 witness: CreateEntity has reused an ID while an older, different ID
\* stays in the free list.
C9_Witness ==
    /\ last.op = "CreateEntity" /\ ~aborted
    /\ m_FreeEntities # << >>
    /\ last.ret \notin {m_FreeEntities[i] : i \in 1 .. Len(m_FreeEntities)}

\* C10: RemoveComponent<T>(e) returns false and changes nothing of the
\* registry (pools, their sparse and dense contents, free list, nextEntity)
\* when T has no pool or e has no value in it (Has is false, or the dense
\* sequence has no entry for e); HasComponent<T>(e) returns false when T has
\* no pool; and neither call creates a pool.
C10_AbsenceIsNoOp ==
    [][LET t == last'.t
           e == last'.e
       IN
         /\ ( /\ Called("RemoveComponent")
              /\ \/ ~TryGetPool(t)
                 \/ ~Has(m_ComponentPools[t], e)
                 \/ ~InDense(m_ComponentPools[t], e) )
            => (last'.ret = FALSE /\ UNCHANGED registry)
         /\ ( /\ Called("HasComponent")
              /\ ~TryGetPool(t) )
            => last'.ret = FALSE
         /\ (Called("RemoveComponent") \/ Called("HasComponent"))
            => DOMAIN m_ComponentPools' = DOMAIN m_ComponentPools]_vars

\* C10 witness: RemoveComponent has returned false for an entity absent
\* from a pool that holds other entities, with an ID in the free list and
\* another component type that has no pool.
C10_Witness ==
    /\ last.op = "RemoveComponent" /\ last.ret = FALSE
    /\ TryGetPool(last.t)
    /\ m_ComponentPools[last.t].m_DenseSet # << >>
    /\ ~InDense(m_ComponentPools[last.t], last.e)
    /\ m_FreeEntities # << >>
    /\ DOMAIN m_ComponentPools # Types

\* C11: right after RemoveComponent<T>(e) has returned, true or false,
\* HasComponent<T>(e) is false and a second RemoveComponent<T>(e) would
\* return false.
C11_RemoveThenAbsent ==
    [][LET t == last'.t
           e == last'.e
       IN
         Called("RemoveComponent")
         => /\ ~aborted'
            /\ HasComponentResult(m_ComponentPools', t, e) = FALSE
            /\ RemoveComponentResult(m_ComponentPools', t, e) = FALSE]_vars

\* C11 witness: RemoveComponent has returned true and left other entries
\* in the pool.
C11_Witness ==
    /\ last.op = "RemoveComponent" /\ last.ret = TRUE
    /\ m_ComponentPools[last.t].m_DenseSet # << >>

\* C12 (as claimed): GetComponent<T>(e) fails its assertion exactly when T
\* has no pool or the dense sequence of T's pool has no entry for e; when it
\* returns, it returns the value stored for e; and it changes nothing of
\* the registry and creates no pool either way.
C12_GetFailsExactlyWhenAbsent ==
    [][LET t == last'.t
           e == last'.e
       IN
         Called("GetComponent")
         => /\ aborted' <=> (IF TryGetPool(t)
                             THEN ~InDense(m_ComponentPools[t], e)
                             ELSE TRUE)
            /\ ~aborted' => last'.ret \in DataOf(m_ComponentPools[t], e)
            /\ UNCHANGED registry]_vars

\* C13: DeleteEntity(e) returns, creates no pool, leaves nextEntity as it
\* was, leaves every pool whose dense sequence had no entry for e as it was
\* (sparse and dense), leaves in every other pool every other entity with
\* the data it had, and appends e to the free list.
C13_DeleteFrame ==
    [][LET e == last'.e
       IN
         Called("DeleteEntity")
         => /\ ~aborted'
            /\ DOMAIN m_ComponentPools' = DOMAIN m_ComponentPools
            /\ m_NextEntity' = m_NextEntity
            /\ m_FreeEntities' = Append(m_FreeEntities, e)
            /\ \A t \in DOMAIN m_ComponentPools :
                  IF InDense(m_ComponentPools[t], e)
                  THEN \A f \in DenseEntities(m_ComponentPools[t]) \ {e} :
                          DataOf(m_ComponentPools'[t], f) = DataOf(m_ComponentPools[t], f)
                  ELSE m_ComponentPools'[t] = m_ComponentPools[t]]_vars

\* C13 witness: DeleteEntity has changed a pool, which still holds entries
\* of other entities.
C13_Witness ==
    /\ last.op = "DeleteEntity"
    /\ \E t \in touched : m_ComponentPools[t].m_DenseSet # << >>

\* The pool index invariant of `set`: sparse[e], where it is not the absent
\* marker, is an index of dense whose entry is e's; and the entry at every
\* index i of dense belongs to an entity whose sparse is i.
IndexInvariant(set) ==
    /\ \A e \in EntityIDs :
          set.m_SparseSet[e] # m_MaxEntities - 1
          => /\ set.m_SparseSet[e] < Len(set.m_DenseSet)
             /\ set.m_DenseSet[set.m_SparseSet[e] + 1].entity = e
    /\ \A i \in 0 .. (Len(set.m_DenseSet) - 1) :
          set.m_SparseSet[set.m_DenseSet[i + 1].entity] = i

\* C14 (as claimed): in every state reached by Add and Remove calls on
\* entities below the capacity, every pool satisfies the pool index
\* invariant.
C14_PoolIndexInvariant ==
    \A t \in DOMAIN m_ComponentPools : IndexInvariant(m_ComponentPools[t])

\* C15 (as claimed): in every pool no entity has more than one entry of the
\* dense sequence, and the dense sequence holds at most maxEntities
\* entries.
C15_OneEntryPerEntity ==
    \A t \in DOMAIN m_ComponentPools :
        LET dense == m_ComponentPools[t].m_DenseSet
        IN  /\ \A i, j \in 1 .. Len(dense) :
                  dense[i].entity = dense[j].entity => i = j
            /\ Len(dense) <= m_MaxEntities

\* C16 (as claimed): in every pool and for every entity below the capacity,
\* Has(e) is true exactly when the dense sequence has an entry whose entity
\* is e.
C16_HasIsMembership ==
    \A t \in DOMAIN m_ComponentPools : \A e \in EntityIDs :
        Has(m_ComponentPools[t], e) <=> InDense(m_ComponentPools[t], e)

\* C17 (as claimed): when Remove(e) is called on a pool whose dense sequence
\* has e's entry at index i and its last entry at index l, afterwards
\* dense[i] is the entry that was at dense[l] and the sparse of that
\* entry's entity is i (if i # l), sparse[e] is the absent marker, and the
\* entry at every index other than i and l is the one that was there.
C17_SwapAndPop ==
    [][LET t == last'.t
           e == last'.e
       IN
         (Called("RemoveComponent") /\ TryGetPool(t))
         => LET dense  == m_ComponentPools[t].m_DenseSet
                dense1 == m_ComponentPools'[t].m_DenseSet
                sparse == m_ComponentPools'[t].m_SparseSet
                l      == Len(dense) - 1
            IN  \A i \in 0 .. l :
                   dense[i + 1].entity = e
                   => /\ i # l => /\ i < Len(dense1)
                                  /\ dense1[i + 1] = dense[l + 1]
                                  /\ sparse[dense[l + 1].entity] = i
                      /\ sparse[e] = m_MaxEntities - 1
                      /\ \A k \in (0 .. l) \ {i, l} :
                            /\ k < Len(dense1)
                            /\ dense1[k + 1] = dense[k + 1]]_vars

\* C18 (as claimed): after every call, the dense sequence of a pool no
\* entry has been removed from lists the entities in the order of their
\* first AddComponent call, each once; and AddComponent on an entity with
\* no entry in the dense sequence appends its entry and leaves the entries
\* there as they were.
C18_InsertionOrder ==
    [][/\ \A t \in DOMAIN m_ComponentPools' :
             t \notin removedFrom'
             => [i \in 1 .. Len(m_ComponentPools'[t].m_DenseSet) |->
                    m_ComponentPools'[t].m_DenseSet[i].entity] = inserted'[t]
       /\ LET t == last'.t
              e == last'.e
          IN  ( /\ Called("AddComponent")
                /\ IF TryGetPool(t) THEN ~InDense(m_ComponentPools[t], e) ELSE TRUE )
              => m_ComponentPools'[t].m_DenseSet =
                    Append(GetOrCreatePool(t)[t].m_DenseSet,
                           [entity |-> e, data |-> last'.v])]_vars

\* The IDs in the free list.
FreeIDs == {m_FreeEntities[i] : i \in 1 .. Len(m_FreeEntities)}

\* C19: as long as every DeleteEntity so far was called on an entity that
\* was live at the call, the free list holds no ID twice, every ID in it is
\* below nextEntity and not live, and the live IDs together with the IDs in
\* the free list are exactly 0 .. nextEntity - 1.
C19_LiveFreePartition ==
    disciplined
    => /\ \A i, j \in 1 .. Len(m_FreeEntities) :
             m_FreeEntities[i] = m_FreeEntities[j] => i = j
       /\ \A id \in FreeIDs : id < m_NextEntity /\ id \notin live
       /\ live \cup FreeIDs = 0 .. (m_NextEntity - 1)

\* C19 witness: in disciplined use an ID is in the free list while a
\* recycled ID is live.
C19_Witness ==
    /\ disciplined
    /\ m_FreeEntities # << >>
    /\ live \cap everDeleted # {}

\* C20: when DeleteEntity and AddComponent are only called on live
\* entities, the dense sequence of every pool holds at most maxEntities - 1
\* entries, so none at index maxEntities - 1, and HasComponent<T>(e) is true
\* exactly when T's dense sequence has an entry for e.
C20_NoCollisionDisciplined ==
    disciplined
    => \A t \in DOMAIN m_ComponentPools :
          /\ Len(m_ComponentPools[t].m_DenseSet) <= m_MaxEntities - 1
          /\ \A e \in EntityIDs :
                HasComponentResult(m_ComponentPools, t, e)
                   <=> InDense(m_ComponentPools[t], e)

\* C20 witness: in disciplined use a pool holds an entry for every entity
\* CreateEntity can issue, one of them a recycled ID.
C20_Witness ==
    /\ disciplined
    /\ live \cap everDeleted # {}
    /\ \E t \in DOMAIN m_ComponentPools :
          /\ Len(m_ComponentPools[t].m_DenseSet) = m_MaxEntities - 1
          /\ \A e \in live : InDense(m_ComponentPools[t], e)

=============================================================================
